---------------------------- MODULE Spec2Model ----------------------------
(***************************************************************************)
(* A model of PaaschenCurveGen.py: the peak extractor (find_maxes), the    *)
(* timestamp aligner (map_pressure_to_file), the folder aggregator         *)
(* (process_folder) and the cross-folder combiner                          *)
(* (process_multiple_folders).                                             *)
(*                                                                         *)
(* Amplitudes, peaks and times are integers.  A mean is never divided out: *)
(* a comparison against a mean or a standard deviation is cross-multiplied *)
(* so that it is exact, and a mean stored in a row is kept as a fraction.  *)
(***************************************************************************)
EXTENDS Integers, Sequences, FiniteSets, TLC

VARIABLES
    pc,          \* position of the running function
    series,      \* find_maxes: df[channel]
    k,           \* find_maxes: index of the next sample of the loop
    prev,        \* find_maxes: the running candidate
    maxes,       \* find_maxes: the list of maxes
    raw,         \* find_maxes: the confirmed list as the scan left it
    file_name,     \* map_pressure_to_file: the capture file's name
    pressure_data, \* map_pressure_to_file: the loaded pressure log
    file_time,     \* map_pressure_to_file: the parsed timestamp
    order,         \* map_pressure_to_file: the result of argsort()
    result,        \* map_pressure_to_file: the returned value
    fs,          \* the capture folders: path -> files in directory order
    listing,     \* process_folder: what os.listdir(folder_path) returned
    triples,     \* process_multiple_folders: the zipped arguments
    ti,          \* process_multiple_folders: index of the current triple
    fi,          \* process_folder: index of the current file
    results,     \* process_folder: the rows collected so far
    all_results, \* process_multiple_folders: the dict folder_path -> rows
    combined,    \* the table written to output_path, None before
    slope_calls, \* history: the series lengths calculate_median_slope was called on
    produced,    \* history: per triple, the rows process_folder returned
    skipped      \* history: the triples skipped for an unreadable pressure log

peakVars == <<series, k, prev, maxes, raw>>

alignVars == <<file_name, pressure_data, file_time, order, result>>

runVars ==
    <<fs, listing, triples, ti, fi, results, all_results, combined, slope_calls, produced,
      skipped>>

vars == <<pc, peakVars, alignVars, runVars>>

\* Python's None, and a value that is not None.
None == <<>>

Some(v) == <<v>>

(***************************************************************************)
(* Bounds and sample values.                                               *)
(***************************************************************************)
MaxLen == 6

Amplitudes == {-6, 0, 1, 5, 6}

RECURSIVE SeqsUpTo(_, _)
SeqsUpTo(S, n) ==
    IF n = 0 THEN {<<>>}
    ELSE LET shorter == SeqsUpTo(S, n - 1)
         IN  shorter \cup {Append(s, x) : s \in {t \in shorter : Len(t) = n - 1}, x \in S}

(***************************************************************************)
(* Arithmetic helpers.                                                     *)
(***************************************************************************)
abs(x) == IF x < 0 THEN -x ELSE x

RECURSIVE SumSeq(_)
SumSeq(s) == IF s = <<>> THEN 0 ELSE Head(s) + SumSeq(Tail(s))

RECURSIVE SumSq(_)
SumSq(s) == IF s = <<>> THEN 0 ELSE Head(s) * Head(s) + SumSq(Tail(s))

(***************************************************************************)
(* find_maxes.                                                             *)
(***************************************************************************)
HysteresisFactor == 4

StdFallback == 10

TrimWidth == 2

\* line 73: av = np.mean(df[channel]), the mean of the signed samples.
\* "p > av" for a series s of n > 0 samples is p * n > sum(s).
AboveAv(p, s) == p * Len(s) > SumSeq(s)

\* mutant: the threshold forgets the mean floor.
ConfirmsWithoutFloor(p, i, s) == p > HysteresisFactor * i

\* line 76: prev > max(4 * i, av)
Confirms(p, i, s) == p > HysteresisFactor * i /\ AboveAv(p, s)

\* lines 75-80: one iteration of the loop on sample x.
ScanStep(p, ms, x, s) ==
    LET i == abs(x)
    IN  IF Confirms(p, i, s) THEN [prev |-> i, maxes |-> Append(ms, p)]
        ELSE IF p < i THEN [prev |-> i, maxes |-> ms]
        ELSE [prev |-> p, maxes |-> ms]

\* mutant: the warm-up discard is left out.
PopNothing(ms) == ms

\* lines 81-82: if maxes: maxes.pop(0)
PopFirst(ms) == IF ms # <<>> THEN Tail(ms) ELSE ms

\* n * (m - mean(ms))
Dev(m, ms) == Len(ms) * m - SumSeq(ms)

\* n * sum((x - mean(ms))^2 for x in ms)
SqDevSum(ms) == Len(ms) * SumSq(ms) - SumSeq(ms) * SumSeq(ms)

\* lines 83-88: d <= 2 * std for a deviation d = D / n, with std = 10 when
\* len(maxes) <= 1 and np.std(maxes, ddof=1) otherwise.
WithinSpread(D, ms) ==
    LET n == Len(ms)
    IN  IF n > 1
        THEN D <= 0 \/ (n - 1) * D * D <= TrimWidth * TrimWidth * n * SqDevSum(ms)
        ELSE D <= TrimWidth * StdFallback * n

\* mutant: the lower bound is computed as mean + 2 * std.
AboveUboundSlip(m, ms) ==
    LET n == Len(ms)
        D == Dev(m, ms)
    IN  IF n > 1
        THEN D >= 0 /\ (n - 1) * D * D >= TrimWidth * TrimWidth * n * SqDevSum(ms)
        ELSE D >= TrimWidth * StdFallback * n

\* line 89: m >= Lbound, with Lbound = np.mean(maxes) - 2 * std
AboveLbound(m, ms) == WithinSpread(-Dev(m, ms), ms)

\* line 90: m <= Ubound, with Ubound = np.mean(maxes) + 2 * std
BelowUbound(m, ms) == WithinSpread(Dev(m, ms), ms)

\* lines 83-90
Trim(ms) ==
    LET keptLow == SelectSeq(ms, LAMBDA m : AboveLbound(m, ms))
    IN  SelectSeq(keptLow, LAMBDA m : BelowUbound(m, ms))

IdlePeaks ==
    /\ series = <<>>
    /\ k = 0
    /\ prev = 0
    /\ maxes = <<>>
    /\ raw = <<>>

IdleAlign ==
    /\ file_name = <<>>
    /\ pressure_data = <<>>
    /\ file_time = None
    /\ order = <<>>
    /\ result = None

IdleRun ==
    /\ fs = <<>>
    /\ listing = <<>>
    /\ triples = <<>>
    /\ ti = 0
    /\ fi = 0
    /\ results = <<>>
    /\ all_results = <<>>
    /\ combined = None
    /\ slope_calls = {}
    /\ produced = <<>>
    /\ skipped = {}

InitPeaks ==
    /\ IdleAlign
    /\ IdleRun
    /\ series \in SeqsUpTo(Amplitudes, MaxLen)
    /\ pc = "scan"
    /\ k = 1
    /\ prev = 0
    /\ maxes = <<>>
    /\ raw = <<>>

\* lines 74-80: one iteration of "for k in df[channel]"
Scan ==
    /\ pc = "scan"
    /\ k <= Len(series)
    /\ LET st == ScanStep(prev, maxes, series[k], series)
       IN  /\ prev' = st.prev
           /\ maxes' = st.maxes
    /\ k' = k + 1
    /\ UNCHANGED <<pc, series, raw, alignVars, runVars>>

\* the loop is exhausted
ScanEnd ==
    /\ pc = "scan"
    /\ k > Len(series)
    /\ raw' = maxes
    /\ pc' = "discard"
    /\ UNCHANGED <<series, k, prev, maxes, alignVars, runVars>>

\* lines 81-82
Discard ==
    /\ pc = "discard"
    /\ maxes' = PopFirst(maxes)
    /\ pc' = "trim"
    /\ UNCHANGED <<series, k, prev, raw, alignVars, runVars>>

\* lines 83-92
TrimAndReturn ==
    /\ pc = "trim"
    /\ maxes' = Trim(maxes)
    /\ pc' = "returned"
    /\ UNCHANGED <<series, k, prev, raw, alignVars, runVars>>

NextPeaks == Scan \/ ScanEnd \/ Discard \/ TrimAndReturn

SpecPeaks == InitPeaks /\ [][NextPeaks]_vars

(***************************************************************************)
(* File names and timestamps.  A string is the sequence of the code points *)
(* of its characters, a timestamp a datetime record [Y, m, d, H, M, S].    *)
(* Spans of time are kept as whole days and seconds of a day.              *)
(***************************************************************************)
\* the characters of code points 32 to 95, in order
PrintableLow ==
    <<" ", "!", "\"", "#", "$", "%", "&", "'", "(", ")", "*", "+", ",", "-", ".", "/",
      "0", "1", "2", "3", "4", "5", "6", "7", "8", "9", ":", ";", "<", "=", ">", "?",
      "@", "A", "B", "C", "D", "E", "F", "G", "H", "I", "J", "K", "L", "M", "N", "O",
      "P", "Q", "R", "S", "T", "U", "V", "W", "X", "Y", "Z", "[", "\\", "]", "^", "_">>

\* the characters of code points 97 to 126, in order
PrintableHigh ==
    <<"a", "b", "c", "d", "e", "f", "g", "h", "i", "j", "k", "l", "m", "n", "o", "p",
      "q", "r", "s", "t", "u", "v", "w", "x", "y", "z", "{", "|", "}", "~">>

\* ord() of a character of the two tables
Ord(c) ==
    IF \E j \in 1..Len(PrintableLow) : PrintableLow[j] = c
    THEN 31 + (CHOOSE j \in 1..Len(PrintableLow) : PrintableLow[j] = c)
    ELSE 96 + (CHOOSE j \in 1..Len(PrintableHigh) : PrintableHigh[j] = c)

\* the string whose characters are cs
Str(cs) == [j \in 1..Len(cs) |-> Ord(cs[j])]

\* line 115: the text removed in front of the timestamp
Prefix == Str(<<"P", "o", "k", "i", "t", " ", "D", "S", "O", " ", "E", "x", "p", "o", "r", "t", " ">>)

\* line 129: "Pokit DSO Export" in file_name
CaptureMark == Str(<<"P", "o", "k", "i", "t", " ", "D", "S", "O", " ", "E", "x", "p", "o", "r", "t">>)

Ext == Str(<<".", "c", "s", "v">>)

Png == Str(<<".", "p", "n", "g">>)

Dash == Str(<<"-">>)

Space == Str(<<" ">>)

Underscore == Str(<<"_">>)

Colon == Str(<<":">>)

\* the characters a blank of a strptime format matches (\s of a str pattern):
\* tab to carriage return, the separators 28 to 31, the space, NEL, the
\* no-break space and the space characters of Unicode
Whitespace ==
    (9..13) \cup (28..32) \cup {133, 160, 5760} \cup (8192..8202)
        \cup {8232, 8233, 8239, 8287, 12288}

\* the code point of the digit zero of every decimal digit set of Unicode; the
\* digits one to nine follow it (\d of a str pattern, Unicode 14)
DigitZeros ==
    {48, 1632, 1776, 1984, 2406, 2534, 2662, 2790, 2918, 3046,
     3174, 3302, 3430, 3558, 3664, 3792, 3872, 4160, 4240, 6112,
     6160, 6470, 6608, 6784, 6800, 6992, 7088, 7232, 7248, 42528,
     43216, 43264, 43472, 43504, 43600, 44016, 65296, 66720, 68912, 69734,
     69872, 69942, 70096, 70384, 70736, 70864, 71248, 71360, 71472, 71904,
     72016, 72784, 73040, 73120, 92768, 92864, 93008, 120782, 120792, 120802,
     120812, 120822, 123200, 123632, 125264, 130032}

\* \d
IsDigit(c) == \E z \in DigitZeros : c \in z..(z + 9)

\* [lo-hi] of ASCII digits
InDigits(c, lo, hi) == c \in (48 + lo)..(48 + hi)

DigitValue(c) == c - (CHOOSE z \in DigitZeros : c \in z..(z + 9))

\* int() of a run of digits
RECURSIVE Number(_)
Number(ds) ==
    IF ds = <<>> THEN 0
    ELSE 10 * Number(SubSeq(ds, 1, Len(ds) - 1)) + DigitValue(ds[Len(ds)])

\* a zero-padded field of strftime: %m, %d, %H, %M, %S
TwoDigit(n) == <<48 + (n \div 10), 48 + (n % 10)>>

\* %Y of strftime for a year of four digits
FourDigit(n) == TwoDigit(n \div 100) \o TwoDigit(n % 100)

\* str.startswith
StartsWith(s, pat) == Len(s) >= Len(pat) /\ SubSeq(s, 1, Len(pat)) = pat

\* str.endswith
EndsWith(s, pat) ==
    Len(s) >= Len(pat) /\ SubSeq(s, Len(s) - Len(pat) + 1, Len(s)) = pat

\* pat in s
Contains(s, pat) ==
    \E j \in 1..(Len(s) - Len(pat) + 1) : SubSeq(s, j, j + Len(pat) - 1) = pat

\* str.replace(old, new) for a non-empty old: every occurrence found scanning
\* from the left, occurrences not overlapping
RECURSIVE StrReplace(_, _, _)
StrReplace(s, old, new) ==
    IF Len(s) < Len(old) THEN s
    ELSE IF SubSeq(s, 1, Len(old)) = old
    THEN new \o StrReplace(SubSeq(s, Len(old) + 1, Len(s)), old, new)
    ELSE <<Head(s)>> \o StrReplace(Tail(s), old, new)

\* line 108: os.path.splitext(file_name)[0] for a name without a directory
\* part: the name up to its last dot, unless only dots come before that dot
SplitextRoot(name) ==
    LET dots == {j \in 1..Len(name) : <<name[j]>> = Str(<<".">>)}
    IN  IF dots = {} THEN name
        ELSE LET last == CHOOSE j \in dots : \A i \in dots : i <= j
             IN  IF \E i \in 1..(last - 1) : i \notin dots
                 THEN SubSeq(name, 1, last - 1)
                 ELSE name

IsLeap(Y) == Y % 4 = 0 /\ (Y % 100 # 0 \/ Y % 400 = 0)

DaysIn(Y, m) ==
    IF m = 2 THEN (IF IsLeap(Y) THEN 29 ELSE 28)
    ELSE IF m \in {4, 6, 9, 11} THEN 30
    ELSE 31

RECURSIVE DaysBeforeMonth(_, _)
DaysBeforeMonth(Y, m) ==
    IF m = 1 THEN 0 ELSE DaysBeforeMonth(Y, m - 1) + DaysIn(Y, m - 1)

DaysBeforeYear(Y) ==
    LET y == Y - 1
    IN  y * 365 + (y \div 4) - (y \div 100) + (y \div 400)

\* datetime.toordinal(): the day number, 1 for 0001-01-01
Ordinal(dt) == DaysBeforeYear(dt.Y) + DaysBeforeMonth(dt.Y, dt.m) + dt.d

SecondOfDay(dt) == (dt.H * 60 + dt.M) * 60 + dt.S

\* a - b as a span [days, secs] with 0 <= secs < 86400
Minus(a, b) ==
    LET dd == Ordinal(a) - Ordinal(b)
        ds == SecondOfDay(a) - SecondOfDay(b)
    IN  IF ds < 0 THEN [days |-> dd - 1, secs |-> ds + 86400]
        ELSE [days |-> dd, secs |-> ds]

\* abs() of a span
AbsDelta(x) ==
    IF x.days >= 0 THEN x
    ELSE IF x.secs = 0 THEN [days |-> -x.days, secs |-> 0]
    ELSE [days |-> -x.days - 1, secs |-> 86400 - x.secs]

\* x <= y on spans
DeltaLeq(x, y) == x.days < y.days \/ (x.days = y.days /\ x.secs <= y.secs)

\* the words of s: its maximal runs of characters that are no whitespace
RECURSIVE WordLen(_)
WordLen(s) ==
    IF s = <<>> \/ Head(s) \in Whitespace THEN 0 ELSE 1 + WordLen(Tail(s))

RECURSIVE Words(_)
Words(s) ==
    IF s = <<>> THEN <<>>
    ELSE IF Head(s) \in Whitespace THEN Words(Tail(s))
    ELSE <<SubSeq(s, 1, WordLen(s))>> \o Words(SubSeq(s, WordLen(s) + 1, Len(s)))

\* the fields of the format as strptime compiles them:
\* %Y \d\d\d\d
MatchesYear(w) == Len(w) = 4 /\ \A i \in 1..4 : IsDigit(w[i])

\* %m 1[0-2]|0[1-9]|[1-9]
MatchesMonth(w) ==
    \/ Len(w) = 2 /\ InDigits(w[1], 1, 1) /\ InDigits(w[2], 0, 2)
    \/ Len(w) = 2 /\ InDigits(w[1], 0, 0) /\ InDigits(w[2], 1, 9)
    \/ Len(w) = 1 /\ InDigits(w[1], 1, 9)

\* %d 3[0-1]|[1-2]\d|0[1-9]|[1-9]| [1-9], the last one the same as [1-9]
\* after the run of whitespace in front of the field
MatchesDay(w) ==
    \/ Len(w) = 2 /\ InDigits(w[1], 3, 3) /\ InDigits(w[2], 0, 1)
    \/ Len(w) = 2 /\ InDigits(w[1], 1, 2) /\ IsDigit(w[2])
    \/ Len(w) = 2 /\ InDigits(w[1], 0, 0) /\ InDigits(w[2], 1, 9)
    \/ Len(w) = 1 /\ InDigits(w[1], 1, 9)

\* %H 2[0-3]|[0-1]\d|\d
MatchesHour(w) ==
    \/ Len(w) = 2 /\ InDigits(w[1], 2, 2) /\ InDigits(w[2], 0, 3)
    \/ Len(w) = 2 /\ InDigits(w[1], 0, 1) /\ IsDigit(w[2])
    \/ Len(w) = 1 /\ IsDigit(w[1])

\* %M [0-5]\d|\d
MatchesMinute(w) ==
    \/ Len(w) = 2 /\ InDigits(w[1], 0, 5) /\ IsDigit(w[2])
    \/ Len(w) = 1 /\ IsDigit(w[1])

\* %S 6[0-1]|[0-5]\d|\d
MatchesSecond(w) ==
    \/ Len(w) = 2 /\ InDigits(w[1], 6, 6) /\ InDigits(w[2], 0, 1)
    \/ MatchesMinute(w)

\* line 116: datetime.strptime(s, '%Y %m %d %H %M %S'); None stands for the
\* ValueError it raises.  A blank of the format matches a run of whitespace,
\* every field the word between two runs, and nothing may come before or
\* after; datetime() then rejects the year 0, a day the month does not have
\* and a second above 59.
Strptime(s) ==
    LET w == Words(s)
    IN  IF /\ s # <<>>
           /\ s[1] \notin Whitespace
           /\ s[Len(s)] \notin Whitespace
           /\ Len(w) = 6
           /\ MatchesYear(w[1])
           /\ MatchesMonth(w[2])
           /\ MatchesDay(w[3])
           /\ MatchesHour(w[4])
           /\ MatchesMinute(w[5])
           /\ MatchesSecond(w[6])
        THEN LET dt == [Y |-> Number(w[1]), m |-> Number(w[2]), d |-> Number(w[3]),
                        H |-> Number(w[4]), M |-> Number(w[5]), S |-> Number(w[6])]
             IN  IF /\ dt.Y >= 1
                    /\ dt.d <= DaysIn(dt.Y, dt.m)
                    /\ dt.S <= 59
                 THEN Some(dt)
                 ELSE None
        ELSE None

\* lines 115-116
ParseFileTime(name) ==
    Strptime(StrReplace(StrReplace(StrReplace(name, Prefix, <<>>), Ext, <<>>), Dash, Space))

(***************************************************************************)
(* map_pressure_to_file.  pressure_data is the loaded frame, a sequence of *)
(* rows [t, p] whose times are timestamps of pandas.                       *)
(***************************************************************************)
\* the first and the last whole second of a nanosecond timestamp
TimestampMin == [Y |-> 1677, m |-> 9, d |-> 21, H |-> 0, M |-> 12, S |-> 44]

TimestampMax == [Y |-> 2262, m |-> 4, d |-> 11, H |-> 23, M |-> 47, S |-> 16]

\* the longest span of whole seconds a nanosecond timedelta holds
TimedeltaMax == [days |-> 106751, secs |-> 85636]

\* line 119: the subtraction turns file_time into a timestamp of the column's
\* resolution and subtracts with an overflow check.  On a column of
\* nanosecond timestamps, which line 54 gives with the releases of pandas
\* that parse to nanoseconds, it raises when file_time lies outside the
\* timestamp range or a difference outside the timedelta range; on a column
\* of a coarser resolution every datetime can be subtracted.
Subtractable(pd, ft) ==
    /\ Minus(ft, TimestampMin).days >= 0
    /\ Minus(TimestampMax, ft).days >= 0
    /\ \A j \in 1..Len(pd) : DeltaLeq(AbsDelta(Minus(pd[j].t, ft)), TimedeltaMax)

\* line 119: (pressure_data['Date/Time'] - file_time).abs()
AbsDiffs(pd, ft) == [j \in 1..Len(pd) |-> AbsDelta(Minus(pd[j].t, ft))]

\* line 119: .argsort() with the default, unstable sort: any permutation of
\* the row positions that puts the differences in non-decreasing order.
Argsorts(d) ==
    {perm \in [1..Len(d) -> 1..Len(d)] :
        /\ \A a, b \in 1..Len(d) : a # b => perm[a] # perm[b]
        /\ \A a, b \in 1..Len(d) : a < b => DeltaLeq(d[perm[a]], d[perm[b]])}

\* line 119: pressure_data.iloc[...[:1]]
Closest(pd, ord) == [j \in 1..(IF Len(ord) < 1 THEN Len(ord) ELSE 1) |-> pd[ord[j]]]

\* lines 120-123
ReturnedPressure(closest_time) ==
    IF closest_time # <<>> THEN Some(closest_time[1].p) ELSE None

\* the values map_pressure_to_file can return for a parsed file time
MapPressure(pd, ft) ==
    {ReturnedPressure(Closest(pd, ord)) : ord \in Argsorts(AbsDiffs(pd, ft))}

\* map_pressure_to_file can raise: strptime at line 116, or the subtraction at
\* line 119
MapPressureRaises(pd, name) ==
    IF ParseFileTime(name) = None THEN TRUE
    ELSE ~Subtractable(pd, ParseFileTime(name)[1])

At(H, M, S) == [Y |-> 2024, m |-> 6, d |-> 17, H |-> H, M |-> M, S |-> S]

\* the text the oscilloscope app puts into a capture's name for the time dt
Stamp(dt) ==
    FourDigit(dt.Y) \o Dash \o TwoDigit(dt.m) \o Dash \o TwoDigit(dt.d) \o Dash
        \o TwoDigit(dt.H) \o Dash \o TwoDigit(dt.M) \o Dash \o TwoDigit(dt.S)

\* the name the oscilloscope app gives a capture taken at dt
DsoName(dt) == Prefix \o Stamp(dt) \o Ext

Final == Str(<<"f", "i", "n", "a", "l">>)

FinalName == Prefix \o Final \o Ext

\* capture names that hold no timestamp in the expected format
UnparseableNames ==
    {FinalName,
     Prefix \o FourDigit(2024) \o Dash \o TwoDigit(6) \o Dash \o TwoDigit(17) \o Ext,
     CaptureMark \o Underscore \o Stamp(At(10, 6, 0)) \o Ext}

\* capture names that strptime parses although the app would not write them:
\* two separators in a row, a field of one digit, another year, other
\* whitespace, other decimal digits
DoubleDashName(dt) ==
    Prefix \o FourDigit(dt.Y) \o Dash \o Dash \o TwoDigit(dt.m) \o Dash \o TwoDigit(dt.d)
        \o Dash \o TwoDigit(dt.H) \o Dash \o TwoDigit(dt.M) \o Dash \o TwoDigit(dt.S) \o Ext

IrregularNames ==
    {DoubleDashName(At(10, 6, 0)),
     Prefix \o FourDigit(2024) \o Dash \o Str(<<"6">>) \o Dash \o TwoDigit(17) \o Dash
         \o TwoDigit(10) \o Dash \o TwoDigit(6) \o Dash \o Str(<<"0">>) \o Ext,
     DsoName([At(10, 6, 0) EXCEPT !.Y = 2023]),
     \* a line tabulation (11) and a no-break space (160) as separators
     Prefix \o FourDigit(2024) \o <<11>> \o TwoDigit(6) \o <<160>> \o TwoDigit(17) \o Dash
         \o TwoDigit(10) \o Dash \o TwoDigit(6) \o Dash \o TwoDigit(0) \o Ext,
     \* the day 17 and the second 00 with an Arabic-Indic digit (1632 + n)
     Prefix \o FourDigit(2024) \o Dash \o TwoDigit(6) \o Dash \o <<49, 1639>> \o Dash
         \o TwoDigit(10) \o Dash \o TwoDigit(6) \o Dash \o <<48, 1632>> \o Ext}

\* capture names whose time parses and cannot be subtracted
FarNames ==
    {DsoName([At(10, 6, 0) EXCEPT !.Y = 9999]),
     DsoName([At(10, 6, 0) EXCEPT !.Y = 1700])}

MaxSamples == 3

MaxMinute == 10

SampleTimes == {At(10, 0, 0), At(10, 5, 0), At(10, 10, 0)}

Pressures == {100, 200}

QueryNames ==
    {DsoName(At(10, M, S)) : M \in 0..MaxMinute, S \in {0, 30}}
        \cup UnparseableNames \cup IrregularNames \cup FarNames

InitAlign ==
    /\ IdlePeaks
    /\ IdleRun
    /\ pressure_data \in SeqsUpTo([t : SampleTimes, p : Pressures], MaxSamples)
    /\ file_name \in QueryNames
    /\ file_time = None
    /\ order = <<>>
    /\ result = None
    /\ pc = "parse"

\* lines 115-116
ParseName ==
    /\ pc = "parse"
    /\ ParseFileTime(file_name) # None
    /\ file_time' = ParseFileTime(file_name)
    /\ pc' = "argsort"
    /\ UNCHANGED <<peakVars, file_name, pressure_data, order, result, runVars>>

\* line 116 raises ValueError
ParseRaises ==
    /\ pc = "parse"
    /\ ParseFileTime(file_name) = None
    /\ pc' = "raised"
    /\ UNCHANGED <<peakVars, alignVars, runVars>>

\* line 119: the differences are taken and sorted
Argsort ==
    /\ pc = "argsort"
    /\ order' \in Argsorts(AbsDiffs(pressure_data, file_time[1]))
    /\ pc' = "closest"
    /\ UNCHANGED <<peakVars, file_name, pressure_data, file_time, result, runVars>>

\* line 119 raises: the file time is out of the range of the subtraction on
\* nanosecond timestamps
SubtractRaises ==
    /\ pc = "argsort"
    /\ ~Subtractable(pressure_data, file_time[1])
    /\ pc' = "raised"
    /\ UNCHANGED <<peakVars, alignVars, runVars>>

\* lines 119-123
ReturnClosest ==
    /\ pc = "closest"
    /\ result' = ReturnedPressure(Closest(pressure_data, order))
    /\ pc' = "mapped"
    /\ UNCHANGED <<peakVars, file_name, pressure_data, file_time, order, runVars>>

NextAlign == ParseName \/ ParseRaises \/ Argsort \/ SubtractRaises \/ ReturnClosest

SpecAlign == InitAlign /\ [][NextAlign]_vars

(***************************************************************************)
(* read_pressure_csv.  A pressure log is unreadable, or a list of raw rows *)
(* [m, d, y, I, M, S, ap, p]: the values of the fields of                  *)
(* 'MM/DD/YY hh:mm:ss AM/PM' and the pressure.                             *)
(***************************************************************************)
\* %p of the format, matched without regard to case
AmMarks == {"AM", "Am", "aM", "am"}

PmMarks == {"PM", "Pm", "pM", "pm"}

\* %y of the format: 69..99 are years of the 1900s, 0..68 of the 2000s
CenturyOf(y) == IF y <= 68 THEN 2000 + y ELSE 1900 + y

\* line 54: pd.to_datetime(..., format='%m/%d/%y %I:%M:%S %p', errors='coerce');
\* None stands for NaT.
ToDatetime12(row) ==
    IF /\ row.y \in 0..99
       /\ row.m \in 1..12
       /\ row.d >= 1
       /\ row.d <= DaysIn(CenturyOf(row.y), row.m)
       /\ row.I \in 1..12
       /\ row.M \in 0..59
       /\ row.S \in 0..59
       /\ row.ap \in AmMarks \cup PmMarks
    THEN Some([Y |-> CenturyOf(row.y), m |-> row.m, d |-> row.d,
               H |-> (row.I % 12) + (IF row.ap \in PmMarks THEN 12 ELSE 0),
               M |-> row.M, S |-> row.S])
    ELSE None

\* line 58: .dt.strftime('%Y-%m-%d %H:%M:%S')
Strftime24(dt) ==
    FourDigit(dt.Y) \o Dash \o TwoDigit(dt.m) \o Dash \o TwoDigit(dt.d) \o Space
        \o TwoDigit(dt.H) \o Colon \o TwoDigit(dt.M) \o Colon \o TwoDigit(dt.S)

\* line 59: pd.to_datetime of the 24-hour text
ToDatetime24(s) ==
    [Y |-> Number(SubSeq(s, 1, 4)), m |-> Number(SubSeq(s, 6, 7)),
     d |-> Number(SubSeq(s, 9, 10)), H |-> Number(SubSeq(s, 12, 13)),
     M |-> Number(SubSeq(s, 15, 16)), S |-> Number(SubSeq(s, 18, 19))]

\* lines 54-59 on the rows: rows without a parseable time are dropped
RECURSIVE LoadRows(_)
LoadRows(rows) ==
    IF rows = <<>> THEN <<>>
    ELSE LET dt == ToDatetime12(Head(rows))
         IN  IF dt = None THEN LoadRows(Tail(rows))
             ELSE <<[t |-> ToDatetime24(Strftime24(dt[1])), p |-> Head(rows).p]>>
                  \o LoadRows(Tail(rows))

\* mutant: a file that cannot be read loads as an empty frame
ReadPressureCsvNeverNone(log) == Some(LoadRows(log.rows))

\* lines 45-68: the loaded frame, or None when the file cannot be read
ReadPressureCsv(log) ==
    IF log.readable THEN Some(LoadRows(log.rows)) ELSE None

(***************************************************************************)
(* read_dso_csv, find_maxes as a function, calculate_median_slope.  A      *)
(* capture file is [name, ok, df]: df is the table read_dso_csv builds, a  *)
(* sequence of columns [col, data], and ok is FALSE when it returns None.  *)
(***************************************************************************)
TimeCol == Str(<<"T", "i", "m", "e", " ", "(", "m", "s", ")">>)

CH == Str(<<"C", "H">>)

CH1 == Str(<<"C", "H", "1">>)

CH2 == Str(<<"C", "H", "2">>)

\* lines 8-43
ReadDsoCsv(file) == IF file.ok THEN Some(file.df) ELSE None

\* col.startswith('CH')
StartsWithCH(col) == StartsWith(col, CH)

\* df[name]
Column(df, name) == (CHOOSE j \in 1..Len(df) : df[j].col = name)

RECURSIVE ScanFrom(_, _, _, _)
ScanFrom(s, j, p, ms) ==
    IF j > Len(s) THEN ms
    ELSE LET st == ScanStep(p, ms, s[j], s)
         IN  ScanFrom(s, j + 1, st.prev, st.maxes)

\* lines 70-92
FindMaxes(s) == Trim(PopFirst(ScanFrom(s, 1, 0, <<>>)))

\* a fraction num / den with den > 0
Frac(n, d) == [num |-> n, den |-> d]

FracLeq(a, b) == a.num * b.den <= b.num * a.den

RECURSIVE InsertFrac(_, _)
InsertFrac(x, q) ==
    IF q = <<>> THEN <<x>>
    ELSE IF FracLeq(x, Head(q)) THEN <<x>> \o q
    ELSE <<Head(q)>> \o InsertFrac(x, Tail(q))

RECURSIVE SortFracs(_)
SortFracs(q) == IF q = <<>> THEN <<>> ELSE InsertFrac(Head(q), SortFracs(Tail(q)))

\* line 95: np.diff(df[channel]) / np.diff(df['Time (ms)']), the time column
\* strictly increasing
Slopes(v, tm) == [j \in 1..(Len(v) - 1) |-> Frac(v[j + 1] - v[j], tm[j + 1] - tm[j])]

\* line 96: np.median; None stands for nan (no slope at all)
Median(q) ==
    LET n == Len(q)
        srt == SortFracs(q)
    IN  IF n = 0 THEN None
        ELSE IF n % 2 = 1 THEN Some(srt[(n + 1) \div 2])
        ELSE LET a == srt[n \div 2]
                 b == srt[n \div 2 + 1]
             IN  Some(Frac(a.num * b.den + b.num * a.den, 2 * a.den * b.den))

\* lines 94-97
CalculateMedianSlope(df, channel) ==
    Median(Slopes(df[Column(df, channel)].data, df[Column(df, TimeCol)].data))

(***************************************************************************)
(* process_folder on one file.                                             *)
(***************************************************************************)
\* line 108: os.path.splitext(file_name)[0] + f'_{channel}.png'
PlotFileName(name, channel) == SplitextRoot(name) \o Underscore \o channel \o Png

\* a plot in a folder: no capture, never read
PlotFile(name) == [name |-> name, ok |-> FALSE, df |-> <<>>]

\* lines 133-135: the plots saved for the CH columns cs of a file, in order
PlotNames(name, cs) == [j \in 1..Len(cs) |-> PlotFileName(name, cs[j].col)]

InsertAt(dir, pos, f) == SubSeq(dir, 1, pos - 1) \o <<f>> \o SubSeq(dir, pos, Len(dir))

\* lines 109-110: plt.savefig writes each plot into folder_path.  A plot of
\* that name is overwritten in place; a new one turns up at any position of
\* the directory order, which os.listdir leaves unspecified.
RECURSIVE SavePlots(_, _)
SavePlots(dir, names) ==
    IF names = <<>> THEN {dir}
    ELSE LET saved ==
                 IF \E j \in 1..Len(dir) : dir[j].name = Head(names) THEN {dir}
                 ELSE {InsertAt(dir, pos, PlotFile(Head(names))) : pos \in 1..(Len(dir) + 1)}
         IN  UNION {SavePlots(d, Tail(names)) : d \in saved}

\* the CH columns of df, in column order
ChannelColumns(df) == SelectSeq(df, LAMBDA c : StartsWithCH(c.col))

\* line 129
IsCapture(name) == EndsWith(name, Ext) /\ Contains(name, CaptureMark)

\* line 137
Scaled(ms, max_multiplier) == [j \in 1..Len(ms) |-> ms[j] * max_multiplier]

\* mutant: the emptiness test of line 138 is left out
MeasuredAlways(ms) == TRUE

\* line 138: if maxes
Measured(ms) == ms # <<>>

\* line 139: np.mean(maxes)
MeanOf(ms) == Frac(SumSeq(ms), Len(ms))

\* line 140: np.std(maxes, ddof=1), kept as its square, the sample variance;
\* None stands for the nan of a single peak
StdSquared(ms) ==
    IF Len(ms) > 1 THEN Some(Frac(SqDevSum(ms), Len(ms) * (Len(ms) - 1)))
    ELSE None

\* the CH columns of df whose scaled maxes pass line 138, in column order
MeasuredColumns(df, mult) ==
    SelectSeq(df, LAMBDA c : StartsWithCH(c.col)
                             /\ Measured(Scaled(FindMaxes(c.data), mult.max_multiplier)))

\* lines 143-144
ScaledPressure(pressure, mult) ==
    IF pressure # None THEN Some(pressure[1] * mult.pressure_multiplier) ELSE None

\* lines 139-152: the row of one measured column
Row(file, df, c, mult, pressure) ==
    LET ms == Scaled(FindMaxes(c.data), mult.max_multiplier)
    IN  [file |-> file.name,
         channel |-> c.col,
         mean_max |-> MeanOf(ms),
         std_max_sq |-> StdSquared(ms),
         median_slope |-> CalculateMedianSlope(df, c.col),
         pressure |-> ScaledPressure(pressure, mult)]

\* lines 133-152 for one file whose name parses: one row per measured column
FileRows(file, df, mult, pressure) ==
    LET cols == MeasuredColumns(df, mult)
    IN  [j \in 1..Len(cols) |-> Row(file, df, cols[j], mult, pressure)]

(***************************************************************************)
(* process_multiple_folders: the dict and the concatenation.               *)
(***************************************************************************)
\* line 183: all_results[folder_path] = results_df on a dict kept as the
\* sequence of its items in insertion order
DictSet(d, key, val) ==
    IF \E j \in 1..Len(d) : d[j].key = key
    THEN [j \in 1..Len(d) |-> IF d[j].key = key THEN [key |-> key, val |-> val] ELSE d[j]]
    ELSE Append(d, [key |-> key, val |-> val])

\* line 188: pd.concat(all_results.values(), ignore_index=True)
RECURSIVE Concat(_)
Concat(d) == IF d = <<>> THEN <<>> ELSE Head(d).val \o Concat(Tail(d))

(***************************************************************************)
(* The folders, pressure logs and calibrations of the modelled runs.       *)
(***************************************************************************)
MaxFolders == 2

ProbeLen == 4

TwoPeaks == <<5, 1, 5, 1, 6, 1>>

OnePeak == <<5, 1, 5, 1>>

OnePeakLong == <<5, 1, 5, 1, 1, 1>>

\* a table of n samples every 2 ms
TimeAxis(n) == [j \in 1..n |-> 2 * j]

Df1(ch1) ==
    <<[col |-> TimeCol, data |-> TimeAxis(Len(ch1))], [col |-> CH1, data |-> ch1]>>

Df2(ch1, ch2) == Df1(ch1) \o <<[col |-> CH2, data |-> ch2]>>

Capture(name, df) == [name |-> name, ok |-> TRUE, df |-> df]

Unreadable(name) == [name |-> name, ok |-> FALSE, df |-> <<>>]

\* a plot left in the folder by an earlier run
PlotName == PlotFileName(DsoName(At(10, 6, 0)), CH1)

\* a pressure log kept next to the captures
LogName == Stamp(At(17, 46, 7)) \o Ext

Folders ==
    [A |-> <<Capture(DsoName(At(10, 6, 0)), Df2(TwoPeaks, OnePeakLong)),
             PlotFile(PlotName),
             Capture(DoubleDashName(At(10, 2, 30)), Df1(OnePeak))>>,
     B |-> <<Capture(FinalName, Df1(OnePeak)),
             Capture(DsoName(At(10, 9, 0)), Df1(OnePeak))>>,
     C |-> <<Unreadable(DsoName(At(10, 1, 0))),
             Capture(LogName, Df1(OnePeak)),
             Capture(FinalName, Df1(<<5>>)),
             Capture(DsoName(At(10, 4, 0)), Df1(<<>>)),
             PlotFile(PlotFileName(DsoName(At(10, 4, 0)), CH1))>>]

FolderPaths == {"A", "B", "C"}

LogRow(I, M, ap, p) ==
    [m |-> 6, d |-> 17, y |-> 24, I |-> I, M |-> M, S |-> 0, ap |-> ap, p |-> p]

PressureLogs ==
    [P1 |-> [readable |-> TRUE,
             rows |-> <<LogRow(10, 0, "AM", 100), LogRow(10, 3, "??", 150),
                        LogRow(10, 5, "AM", 200), LogRow(10, 10, "AM", 300),
                        LogRow(12, 0, "PM", 400)>>],
     P2 |-> [readable |-> FALSE, rows |-> <<>>],
     P3 |-> [readable |-> TRUE, rows |-> <<LogRow(13, 0, "AM", 100)>>]]

M1 == [max_multiplier |-> 1, pressure_multiplier |-> 1]

M2 == [max_multiplier |-> 2, pressure_multiplier |-> 3]

\* the pressure log and calibration a folder may be listed with
Calibrated == {<<"P1", M1>>, <<"P2", M1>>, <<"P3", M2>>}

Triples ==
    {[folder |-> f, log |-> c[1], mult |-> c[2]] : f \in FolderPaths, c \in Calibrated}

StartRun ==
    /\ IdlePeaks
    /\ file_name = <<>>
    /\ pressure_data = <<>>
    /\ file_time = None
    /\ order = <<>>
    /\ result = None
    /\ listing = <<>>
    /\ ti = 1
    /\ fi = 0
    /\ results = <<>>
    /\ all_results = <<>>
    /\ combined = None
    /\ slope_calls = {}
    /\ produced = <<>>
    /\ skipped = {}
    /\ pc = "folders"

\* a run over any list of at most MaxFolders triples
InitRun ==
    /\ fs = Folders
    /\ triples \in SeqsUpTo(Triples, MaxFolders)
    /\ StartRun

\* the capture files a one-file folder may hold: any two channels of at most
\* ProbeLen samples, under a name that parses, one that does not, or one that
\* is no capture name, and a file read_dso_csv cannot read
ProbeSeries == SeqsUpTo({1, 5}, ProbeLen)

ProbeFiles ==
    LET names == {DsoName(At(10, 6, 0)), FinalName, PlotName}
        pairs == {q \in ProbeSeries \X ProbeSeries : Len(q[1]) = Len(q[2])}
    IN  {Capture(n, Df2(q[1], q[2])) : n \in names, q \in pairs}
        \cup {Unreadable(n) : n \in names}

\* a run over one folder that holds one file
InitFolder ==
    /\ \E f \in ProbeFiles : fs = [A |-> <<f>>]
    /\ \E l \in {"P1", "P2"} :
          triples = <<[folder |-> "A", log |-> l,
                       mult |-> M2]>>
    /\ StartRun

(***************************************************************************)
(* process_multiple_folders and process_folder as steps.                   *)
(***************************************************************************)
Triple == triples[ti]

File == listing[fi]

\* lines 174-178: the pressure log cannot be read, the folder is skipped
SkipFolder ==
    /\ pc = "folders"
    /\ ti <= Len(triples)
    /\ ReadPressureCsv(PressureLogs[Triple.log]) = None
    /\ ti' = ti + 1
    /\ skipped' = skipped \cup {ti}
    /\ produced' = Append(produced, <<>>)
    /\ UNCHANGED <<pc, peakVars, alignVars, fs, listing, triples, fi, results, all_results,
                   combined, slope_calls>>

\* lines 174-181 and 126-128: process_folder is entered
EnterFolder ==
    /\ pc = "folders"
    /\ ti <= Len(triples)
    /\ ReadPressureCsv(PressureLogs[Triple.log]) # None
    /\ pressure_data' = ReadPressureCsv(PressureLogs[Triple.log])[1]
    /\ listing' = fs[Triple.folder]
    /\ results' = <<>>
    /\ fi' = 1
    /\ pc' = "files"
    /\ UNCHANGED <<peakVars, file_name, file_time, order, result, fs, triples, ti,
                   all_results, combined, slope_calls, produced, skipped>>

\* line 129: the name is not that of a capture
SkipFile ==
    /\ pc = "files"
    /\ fi <= Len(listing)
    /\ ~IsCapture(File.name)
    /\ fi' = fi + 1
    /\ UNCHANGED <<pc, peakVars, alignVars, fs, listing, triples, ti, results, all_results,
                   combined, slope_calls, produced, skipped>>

\* lines 131-132: read_dso_csv returns None
UnreadableFile ==
    /\ pc = "files"
    /\ fi <= Len(listing)
    /\ IsCapture(File.name)
    /\ ReadDsoCsv(File) = None
    /\ fi' = fi + 1
    /\ UNCHANGED <<pc, peakVars, alignVars, fs, listing, triples, ti, results, all_results,
                   combined, slope_calls, produced, skipped>>

\* lines 133-152: the file's columns are plotted and analysed and their rows
\* appended;
\* map_pressure_to_file is called only for a measured column, and returns the
\* same value for every column of the file; it returns when the name parses
\* (and, on nanosecond timestamps, the file time can be subtracted)
AnalyseFile ==
    /\ pc = "files"
    /\ fi <= Len(listing)
    /\ IsCapture(File.name)
    /\ ReadDsoCsv(File) # None
    /\ LET df == ReadDsoCsv(File)[1]
           cols == MeasuredColumns(df, Triple.mult)
       IN  /\ cols # <<>> => ParseFileTime(File.name) # None
           /\ \E pressure \in (IF cols = <<>> THEN {None}
                               ELSE MapPressure(pressure_data, ParseFileTime(File.name)[1])) :
                  results' = results \o FileRows(File, df, Triple.mult, pressure)
           /\ slope_calls' = slope_calls \cup {Len(cols[j].data) : j \in 1..Len(cols)}
           /\ \E dir \in SavePlots(fs[Triple.folder],
                                   PlotNames(File.name, ChannelColumns(df))) :
                  fs' = [fs EXCEPT ![Triple.folder] = dir]
    /\ fi' = fi + 1
    /\ UNCHANGED <<pc, peakVars, alignVars, listing, triples, ti, all_results, combined,
                   produced, skipped>>

\* lines 135, 141-142, 116 and 119: the columns up to the first measured one
\* are plotted, that column reaches map_pressure_to_file, which raises, and
\* nothing catches it
FileRaises ==
    /\ pc = "files"
    /\ fi <= Len(listing)
    /\ IsCapture(File.name)
    /\ ReadDsoCsv(File) # None
    /\ LET df == ReadDsoCsv(File)[1]
           cols == MeasuredColumns(df, Triple.mult)
           chs == ChannelColumns(df)
       IN  /\ cols # <<>>
           /\ MapPressureRaises(pressure_data, File.name)
           /\ slope_calls' = slope_calls \cup {Len(cols[1].data)}
           /\ LET last == CHOOSE j \in 1..Len(chs) : chs[j] = cols[1]
              IN  \E dir \in SavePlots(fs[Triple.folder],
                                      PlotNames(File.name, SubSeq(chs, 1, last))) :
                      fs' = [fs EXCEPT ![Triple.folder] = dir]
    /\ pc' = "aborted"
    /\ UNCHANGED <<peakVars, alignVars, listing, triples, ti, fi, results, all_results,
                   combined, produced, skipped>>

\* lines 154 and 182-183: process_folder returns, a non-empty result is stored
EndFolder ==
    /\ pc = "files"
    /\ fi > Len(listing)
    /\ all_results' = (IF results # <<>> THEN DictSet(all_results, Triple.folder, results)
                       ELSE all_results)
    /\ produced' = Append(produced, results)
    /\ ti' = ti + 1
    /\ pc' = "folders"
    /\ UNCHANGED <<peakVars, alignVars, fs, listing, triples, fi, results, combined, slope_calls,
                   skipped>>

\* lines 185-189: the results are concatenated and written
WriteCombined ==
    /\ pc = "folders"
    /\ ti > Len(triples)
    /\ all_results # <<>>
    /\ combined' = Some(Concat(all_results))
    /\ pc' = "written"
    /\ UNCHANGED <<peakVars, alignVars, fs, listing, triples, ti, fi, results, all_results,
                   slope_calls, produced, skipped>>

\* line 188: pd.concat raises ValueError on an empty dict
CombineFails ==
    /\ pc = "folders"
    /\ ti > Len(triples)
    /\ all_results = <<>>
    /\ pc' = "failed"
    /\ UNCHANGED <<peakVars, alignVars, runVars>>

NextRun ==
    \/ SkipFolder
    \/ EnterFolder
    \/ SkipFile
    \/ UnreadableFile
    \/ AnalyseFile
    \/ FileRaises
    \/ EndFolder
    \/ WriteCombined
    \/ CombineFails

Spec == InitRun /\ [][NextRun]_vars

SpecFolder == InitFolder /\ [][NextRun]_vars

(***************************************************************************)
(* Claims about find_maxes, checked under SpecPeaks.                       *)
(***************************************************************************)

\* The scan as the specification words it: avg is the mean of |x| over the
\* series, so "prev > avg" is prev * n > sum of |x|.
RECURSIVE SumAbs(_)
SumAbs(s) == IF s = <<>> THEN 0 ELSE abs(Head(s)) + SumAbs(Tail(s))

RECURSIVE SpecifiedScan(_, _, _, _)
SpecifiedScan(s, j, p, ms) ==
    IF j > Len(s) THEN ms
    ELSE LET i == abs(s[j])
         IN  IF p > HysteresisFactor * i /\ p * Len(s) > SumAbs(s)
             THEN SpecifiedScan(s, j + 1, i, Append(ms, p))
             ELSE IF p < i THEN SpecifiedScan(s, j + 1, i, ms)
             ELSE SpecifiedScan(s, j + 1, p, ms)

\* C1 (as claimed): once the scan has ended, the confirmed list equals the list
\* of the specified scan, whose threshold avg is the mean of the absolute
\* amplitudes.  The code takes the mean of the signed amplitudes.
C1_ScanUsesMeanOfAbsolute ==
    pc = "discard" => raw = SpecifiedScan(series, 1, 0, <<>>)

Scenario == <<0, 1, 5, 1, 0, 6>>

\* C2 (as claimed): on the scenario series the scan confirms 5 and then 6, and
\* find_maxes returns exactly the peak 6.
C2_ScenarioLeavesSix ==
    (pc = "returned" /\ series = Scenario) => (raw = <<5, 6>> /\ maxes = <<6>>)

\* C2 (amended): on the scenario series the scan confirms only the peak 5 (the
\* final 6 is still the running candidate when the series ends), the 5 is
\* discarded as warm-up, and find_maxes returns no peak.
C2_ScenarioLeavesNothing ==
    (pc = "returned" /\ series = Scenario) => (raw = <<5>> /\ maxes = <<>>)

C2_Witness == pc = "returned" /\ series = Scenario /\ Len(raw) = 1

\* C3: the first confirmed candidate is never part of the result: find_maxes
\* returns fewer peaks than the scan confirmed, and none at all when the scan
\* confirmed zero candidates or exactly one.
C3_FirstCandidateDiscarded ==
    pc = "returned" =>
        /\ (Len(raw) <= 1 => maxes = <<>>)
        /\ (raw # <<>> => Len(maxes) < Len(raw))

C3_Witness == pc = "returned" /\ Len(raw) = 1 /\ maxes = <<>>

\* C9: when fewer than 2 peaks remain after the warm-up discard, the outlier
\* trim removes nothing: the returned list is the confirmed list without its
\* first element.
C9_TrimKeepsFewerThanTwo ==
    (pc = "returned" /\ Len(raw) <= 2) =>
        maxes = (IF raw = <<>> THEN <<>> ELSE Tail(raw))

C9_Witness == pc = "returned" /\ Len(raw) = 2 /\ Len(maxes) = 1

(***************************************************************************)
(* Claims about map_pressure_to_file, checked under SpecAlign.             *)
(***************************************************************************)
Distance(row) == AbsDelta(Minus(row.t, file_time[1]))

ExampleTimes == <<At(10, 0, 0), At(10, 5, 0), At(10, 10, 0)>>

ExampleCase ==
    /\ Len(pressure_data) = 3
    /\ \A j \in 1..3 : pressure_data[j].t = ExampleTimes[j]
    /\ file_name = DsoName(At(10, 6, 0))

\* what the claim says of a returned value: None exactly when the pressure
\* series is empty, and otherwise the pressure of a sample whose absolute time
\* difference to the file time is minimal over all samples; with samples at
\* 10:00, 10:05 and 10:10 and a file time of 10:06 that is the 10:05 sample.
NearestSample ==
    /\ (result = None <=> pressure_data = <<>>)
    /\ pressure_data # <<>> =>
          \E j \in 1..Len(pressure_data) :
              /\ result = Some(pressure_data[j].p)
              /\ \A i \in 1..Len(pressure_data) :
                     DeltaLeq(Distance(pressure_data[j]), Distance(pressure_data[i]))
    /\ ExampleCase => result = Some(pressure_data[2].p)

\* whenever map_pressure_to_file returns, it returns the nearest sample
NearestWhenReturned == pc = "mapped" => NearestSample

\* C4 (as claimed): for every query time, that is every file time line 116
\* parses, the call of map_pressure_to_file ends by returning the pressure of
\* the nearest sample (None exactly for an empty series).  On nanosecond
\* timestamps the call ends in an exception at line 119 instead when the file
\* time is too far from the samples.
C4_NearestSampleForEveryTime ==
    (file_time # None /\ pc \in {"mapped", "raised"}) =>
        (pc = "mapped" /\ NearestSample)

(***************************************************************************)
(* Claims about process_folder and process_multiple_folders, checked under *)
(* Spec (runs over lists of folders) and SpecFolder (one folder, one file  *)
(* of any content).                                                        *)
(***************************************************************************)
Terminated == pc \in {"written", "failed", "aborted"}

\* C5 (as claimed): a capture file whose name cannot be parsed into a
\* timestamp is skipped and the run goes on; the run is never aborted on such
\* a file.
C5_UnparseableNameIsConfined ==
    ~(pc = "aborted" /\ ParseFileTime(File.name) = None)

\* C6: the step of process_multiple_folders on a folder whose pressure log
\* cannot be loaded moves on to the next triple without entering
\* process_folder: the folder contributes no row, and the stored results of
\* the other folders, which are all that later steps read, are left as they
\* were.
C6_UnreadableLogSkipsFolder ==
    [][(/\ pc = "folders"
        /\ ti <= Len(triples)
        /\ ~PressureLogs[triples[ti].log].readable)
       => (/\ pc' = "folders"
           /\ ti' = ti + 1
           /\ produced' = Append(produced, <<>>)
           /\ all_results' = all_results
           /\ results' = results
           /\ slope_calls' = slope_calls
           /\ combined' = combined)]_vars

C6_Witness ==
    /\ pc = "written"
    /\ skipped # {}
    /\ \E i \in 1..Len(produced) : i \notin skipped /\ produced[i] # <<>>
    /\ \A i \in skipped : produced[i] = <<>>

RECURSIVE Flatten(_)
Flatten(lists) == IF lists = <<>> THEN <<>> ELSE Head(lists) \o Flatten(Tail(lists))

\* C7 (as claimed): the combined table that is written is the concatenation, in
\* the order of the triples, of the rows process_folder returned for each
\* triple, also when a folder path occurs more than once.
C7_CombinedIsConcatenation ==
    pc = "written" => combined = Some(Flatten(produced))

\* C8 (as claimed): a run in which no folder produced a row ends with an error
\* and writes no table; a run in which some folder produced a row completes
\* and writes the table.
C8_WritesIffSomeFolderHasRows ==
    Terminated =>
        IF \E i \in 1..Len(produced) : produced[i] # <<>>
        THEN pc = "written" /\ combined # None
        ELSE pc # "written" /\ combined = None

\* the samples of the channel a row was computed from
RowSeries(row) ==
    LET files == fs[triples[1].folder]
        f == files[CHOOSE j \in 1..Len(files) : files[j].name = row.file]
    IN  f.df[Column(f.df, row.channel)].data

\* C10: calculate_median_slope is never called on a series of fewer than 2
\* samples, and no row is emitted for such a series.
C10_NoSlopeOnShortSeries ==
    /\ \A n \in slope_calls : n >= 2
    /\ \A j \in 1..Len(results) : Len(RowSeries(results[j])) >= 2

C10_Witness ==
    /\ pc = "files"
    /\ fi = 2
    /\ IsCapture(listing[1].name)
    /\ listing[1].ok
    /\ Len(listing[1].df[2].data) = 1
    /\ slope_calls = {}
    /\ results = <<>>

=============================================================================
